---------------------------- MODULE Spec2Model ----------------------------
(***************************************************************************)
(* roadrunner-server/metrics: the collector registry of the metrics plugin *)
(* and its RPC surface (Declare, Unregister, Add, Sub, Set, Observe),      *)
(* together with the plugin life cycle (Init, Serve, Stop).                *)
(*                                                                         *)
(* The model follows the current generation of the code: rpc.go lines      *)
(* 330-674 (namespace-aware lookup through collectorExists), the plugin of *)
(* unnamed/part_002 and config.go.  The prometheus client library is the   *)
(* Exposition Sink; its observable behaviour at the call sites is modelled *)
(* by the operators of the "prometheus" section.                           *)
(***************************************************************************)
EXTENDS Integers, Sequences, FiniteSets, TLC

VARIABLES
    collectors,  \* Plugin.collectors (sync.Map): key -> index into handles
    handles,     \* the *collector objects ever stored, in creation order
    sink,        \* Plugin.registry: indices of the collectors registered in it
    mu,          \* Plugin.mu: the holder of the mutex, or Free
    pc,          \* per RPC caller: the position inside its call
    req,         \* per RPC caller: the request of its current (or last) call
    col,         \* per RPC caller: the handle resolved by collectorExists
    res,         \* per RPC caller: the error returned by its last call
    ok,          \* per RPC caller: the reply flag *ok of its last call
    calls,       \* number of RPC calls started so far
    plugin,      \* position of the plugin life cycle (Serve, Stop)
    todo,        \* keys sync.Map.Range has still to visit during Serve
    errCh        \* the error delivered on the channel Serve returns

vars == <<collectors, handles, sink, mu, pc, req, col, res, ok, calls,
          plugin, todo, errCh>>

----------------------------------------------------------------------------
(* Bounds of the model.                                                    *)

NumProcs == 2
MaxCalls == 3

Procs == 1..NumProcs

Free == 0
PluginProc == NumProcs + 1

----------------------------------------------------------------------------
(* config.go: collector types.                                             *)

Histogram == "histogram"
Gauge == "gauge"
Counter == "counter"
Summary == "summary"

CollectorTypes == {Histogram, Gauge, Counter, Summary}

(* rpc.go: the errors the handlers return, by kind.                        *)
NoError == "nil"
NotFound == "NotFound"
AlreadyExists == "AlreadyExists"
InvalidType == "InvalidType"
RegistrationFailure == "RegistrationFailure"
MissingLabels == "MissingLabels"
UnsupportedOperation == "UnsupportedOperation"
Panic == "panic"

NoHandle == 0

----------------------------------------------------------------------------
(* unnamed/part_002: the registry key of a namespaced collector.           *)

(* Mutant: the key leaves the namespace out.                               *)
collectorKeyNoNamespace(name, namespace) == name \o "@"

collectorKey(name, namespace) == name \o "@" \o namespace

(* sync.Map Load on Plugin.collectors.                                     *)
Load(m, key) == IF key \in DOMAIN m THEN m[key] ELSE NoHandle

(* sync.Map Store on Plugin.collectors.                                    *)
Store(m, key, h) ==
    [k \in DOMAIN m \cup {key} |-> IF k = key THEN h ELSE m[k]]

(* Mutant: the lookup of the earlier generation, by bare name alone.       *)
collectorExistsBareName(m, name, namespace) == Load(m, name)

(* Mutant: the composite key is built without the namespace of the call.   *)
collectorExistsNoNamespace(m, name, namespace) ==
    IF Load(m, name) # NoHandle
        THEN Load(m, name)
        ELSE Load(m, collectorKey(name, ""))

(* Mutant: the composite key first, then the bare name.                    *)
collectorExistsCompositeFirst(m, name, namespace) ==
    IF Load(m, collectorKey(name, namespace)) # NoHandle
        THEN Load(m, collectorKey(name, namespace))
        ELSE Load(m, name)

(* Mutant: the composite key alone.                                        *)
collectorExistsCompositeOnly(m, name, namespace) ==
    Load(m, collectorKey(name, namespace))

(* rpc.collectorExists: the bare name first, then the composite key.       *)
collectorExists(m, name, namespace) ==
    IF Load(m, name) # NoHandle
        THEN Load(m, name)
        ELSE Load(m, collectorKey(name, namespace))

----------------------------------------------------------------------------
(* prometheus: what the code relies on at its call sites.                  *)

(* prometheus.BuildFQName, used by every New* constructor for the          *)
(* descriptor of the collector.                                            *)
BuildFQName(namespace, subsystem, name) ==
    (IF namespace = "" THEN "" ELSE namespace \o "_")
        \o (IF subsystem = "" THEN "" ELSE subsystem \o "_")
        \o name

(* Buckets of a histogram must be strictly increasing: NewHistogram and    *)
(* NewHistogramVec panic otherwise.                                        *)
BucketsValid(b) == \A i \in 1..(Len(b) - 1) : b[i] < b[i + 1]

ConstructorPanics(nc) == nc.type = Histogram /\ ~BucketsValid(nc.buckets)

(* The value of one metric: number of observations and their sum.  A       *)
(* counter or gauge keeps its value in sum.                                *)
ZeroValue == [cnt |-> 0, sum |-> 0]

(* Mutant: the factory builds the scalar collector whatever the labels.    *)
NewCollectorAlwaysScalar(name, nc, objectives, registered) ==
    [name |-> name,
     namespace |-> nc.namespace,
     subsystem |-> nc.subsystem,
     type |-> nc.type,
     vec |-> FALSE,
     labels |-> nc.labels,
     buckets |-> nc.buckets,
     objectives |-> objectives,
     registered |-> registered,
     vals |-> (<<>> :> ZeroValue)]

(* The prometheus.Collector built by the type switch of Declare and of     *)
(* getCollectors: the vector of the type when len(Labels) != 0, the scalar *)
(* otherwise.  A scalar has its single metric from the start, a vector has *)
(* no children.                                                            *)
NewCollector(name, nc, objectives, registered) ==
    [name |-> name,
     namespace |-> nc.namespace,
     subsystem |-> nc.subsystem,
     type |-> nc.type,
     vec |-> Len(nc.labels) # 0,
     labels |-> nc.labels,
     buckets |-> nc.buckets,
     objectives |-> objectives,
     registered |-> registered,
     vals |-> IF Len(nc.labels) # 0 THEN <<>> ELSE (<<>> :> ZeroValue)]

IsVec(h) == h.vec

Desc(h) == BuildFQName(h.namespace, h.subsystem, h.name)

(* prometheus.Registry.Register: rejects a collector whose descriptor      *)
(* collides with one that is registered.                                   *)
RegisterFails(hs, s, c) == \E i \in s : Desc(hs[i]) = Desc(c)

(* prometheus.Registry.Unregister: removes the registered collector with   *)
(* the descriptor of c and reports whether there was one.                  *)
Registered(hs, s, c) == {i \in s : Desc(hs[i]) = Desc(c)}

----------------------------------------------------------------------------
(* Requests.                                                               *)

(* config.go: Collector, the declaration record of a collector.            *)
Collector(namespace, subsystem, type, labels, buckets, objectives) ==
    [namespace |-> namespace, subsystem |-> subsystem, type |-> type,
     labels |-> labels, buckets |-> buckets, objectives |-> objectives]

NoCollector == Collector("", "", "", <<>>, <<>>, {})

(* rpc.go: Metric, and config.go: NamedCollector, as the argument of a     *)
(* call.                                                                   *)
Request(op, name, namespace, value, labels, nc) ==
    [op |-> op, name |-> name, namespace |-> namespace, value |-> value,
     labels |-> labels, nc |-> nc]

NoRequest == Request("", "", "", 0, <<>>, NoCollector)

(* The process runs and the plugin was initialised: no call has panicked   *)
(* and Init did not return an error.                                       *)
Running == plugin # "failed" /\ \A q \in Procs : pc[q] # "panic"

(* A call arrives at an idle caller.  Callers are interchangeable: the     *)
(* idle caller of least index takes it.                                    *)
CanCall(p) ==
    /\ Running
    /\ pc[p] = "idle"
    /\ \A q \in Procs : q < p => pc[q] # "idle"
    /\ calls < MaxCalls

(* The entry of a handler: the reply flag starts false.                    *)
Enter(p, r) ==
    /\ req' = [req EXCEPT ![p] = r]
    /\ ok' = [ok EXCEPT ![p] = FALSE]
    /\ calls' = calls + 1

(* The return of a handler with error e; its locals are gone.              *)
Return(p, e) ==
    /\ pc' = [pc EXCEPT ![p] = "idle"]
    /\ res' = [res EXCEPT ![p] = e]
    /\ col' = [col EXCEPT ![p] = NoHandle]

(* A panic leaves the handler: nothing in the code recovers it.            *)
Panics(p) ==
    /\ pc' = [pc EXCEPT ![p] = "panic"]
    /\ res' = [res EXCEPT ![p] = Panic]
    /\ col' = [col EXCEPT ![p] = NoHandle]

----------------------------------------------------------------------------
(* rpc.Declare.                                                            *)

DeclareCall(p, name, nc) ==
    /\ CanCall(p)
    /\ Enter(p, Request("Declare", name, nc.namespace, 0, <<>>, nc))
    /\ pc' = [pc EXCEPT ![p] = "d_lock"]
    /\ col' = [col EXCEPT ![p] = NoHandle]
    /\ res' = [res EXCEPT ![p] = "none"]
    /\ UNCHANGED <<collectors, handles, sink, mu, plugin, todo, errCh>>

(* Mutant: Declare enters without waiting for the mutex.                   *)
DeclareLockNoWait(p) ==
    /\ Running
    /\ pc[p] = "d_lock"
    /\ mu' = p
    /\ pc' = [pc EXCEPT ![p] = "d_check"]
    /\ UNCHANGED <<collectors, handles, sink, req, col, res, ok, calls,
                   plugin, todo, errCh>>

(* r.p.mu.Lock()                                                           *)
DeclareLock(p) ==
    /\ Running
    /\ pc[p] = "d_lock"
    /\ mu = Free
    /\ mu' = p
    /\ pc' = [pc EXCEPT ![p] = "d_check"]
    /\ UNCHANGED <<collectors, handles, sink, req, col, res, ok, calls,
                   plugin, todo, errCh>>

(* The existence check and the type switch that builds the collector.      *)
DeclareCheck(p) ==
    /\ Running
    /\ pc[p] = "d_check"
    /\ IF collectorExists(collectors, req[p].name, req[p].namespace) # NoHandle
          THEN Return(p, AlreadyExists) /\ mu' = Free
          ELSE IF req[p].nc.type \notin CollectorTypes
          THEN Return(p, InvalidType) /\ mu' = Free
          ELSE IF ConstructorPanics(req[p].nc)
          THEN Panics(p) /\ mu' = Free
          ELSE /\ pc' = [pc EXCEPT ![p] = "d_register"]
               /\ UNCHANGED <<res, mu, col>>
    /\ UNCHANGED <<collectors, handles, sink, req, ok, calls,
                   plugin, todo, errCh>>

(* Mutant: the error of Register is dropped and the collector is stored.   *)
DeclareRegisterIgnoresError(p) ==
    /\ Running
    /\ pc[p] = "d_register"
    /\ LET c == NewCollector(req[p].name, req[p].nc, {}, TRUE) IN
       /\ handles' = Append(handles, c)
       /\ sink' = IF RegisterFails(handles, sink, c)
                     THEN sink ELSE sink \cup {Len(handles) + 1}
       /\ col' = [col EXCEPT ![p] = Len(handles) + 1]
       /\ pc' = [pc EXCEPT ![p] = "d_store"]
    /\ UNCHANGED <<collectors, req, res, ok, mu, calls, plugin, todo, errCh>>

(* r.p.Register(promCol); on success the collector object exists and is in *)
(* the prometheus registry.  Declare passes no objectives.                 *)
DeclareRegister(p) ==
    /\ Running
    /\ pc[p] = "d_register"
    /\ LET c == NewCollector(req[p].name, req[p].nc, {}, TRUE) IN
       IF RegisterFails(handles, sink, c)
          THEN /\ Return(p, RegistrationFailure)
               /\ ok' = [ok EXCEPT ![p] = FALSE]
               /\ mu' = Free
               /\ UNCHANGED <<handles, sink>>
          ELSE /\ handles' = Append(handles, c)
               /\ sink' = sink \cup {Len(handles) + 1}
               /\ col' = [col EXCEPT ![p] = Len(handles) + 1]
               /\ pc' = [pc EXCEPT ![p] = "d_store"]
               /\ UNCHANGED <<res, ok, mu>>
    /\ UNCHANGED <<collectors, req, calls, plugin, todo, errCh>>

(* r.p.collectors.Store(collectorKey(nc.Name, nc.Namespace), col)          *)
DeclareStore(p) ==
    /\ Running
    /\ pc[p] = "d_store"
    /\ collectors' = Store(collectors,
                           collectorKey(req[p].name, req[p].namespace), col[p])
    /\ ok' = [ok EXCEPT ![p] = TRUE]
    /\ Return(p, NoError)
    /\ mu' = Free
    /\ UNCHANGED <<handles, sink, req, calls, plugin, todo, errCh>>

----------------------------------------------------------------------------
(* rpc.Unregister.                                                         *)

(* Mutant: the lookup of the earlier Unregister, by bare name alone.       *)
UnregisterCallBareName(p, name) ==
    /\ CanCall(p)
    /\ Enter(p, Request("Unregister", name, "", 0, <<>>, NoCollector))
    /\ LET h == Load(collectors, name) IN
       IF h = NoHandle
          THEN Return(p, NotFound)
          ELSE /\ pc' = [pc EXCEPT ![p] = "u_sink"]
               /\ col' = [col EXCEPT ![p] = h]
               /\ res' = [res EXCEPT ![p] = "none"]
    /\ UNCHANGED <<collectors, handles, sink, mu, plugin, todo, errCh>>

UnregisterCall(p, name) ==
    /\ CanCall(p)
    /\ Enter(p, Request("Unregister", name, "", 0, <<>>, NoCollector))
    /\ LET h == collectorExists(collectors, name, "") IN
       IF h = NoHandle
          THEN Return(p, NotFound)
          ELSE /\ pc' = [pc EXCEPT ![p] = "u_sink"]
               /\ col' = [col EXCEPT ![p] = h]
               /\ res' = [res EXCEPT ![p] = "none"]
    /\ UNCHANGED <<collectors, handles, sink, mu, plugin, todo, errCh>>

(* Mutant: the reply flag set whatever the sink answers.                   *)
UnregisterSinkAlwaysAcks(p) ==
    /\ Running
    /\ pc[p] = "u_sink"
    /\ sink' = sink \ Registered(handles, sink, handles[col[p]])
    /\ ok' = [ok EXCEPT ![p] = TRUE]
    /\ Return(p, NoError)
    /\ UNCHANGED <<collectors, handles, mu, req, calls, plugin, todo, errCh>>

(* r.p.registry.Unregister(col.col)                                        *)
UnregisterSink(p) ==
    /\ Running
    /\ pc[p] = "u_sink"
    /\ LET gone == Registered(handles, sink, handles[col[p]]) IN
       /\ sink' = sink \ gone
       /\ ok' = [ok EXCEPT ![p] = (gone # {})]
    /\ Return(p, NoError)
    /\ UNCHANGED <<collectors, handles, mu, req, calls, plugin, todo, errCh>>

----------------------------------------------------------------------------
(* The type switches of Add, Sub, Set and Observe.                         *)

(* The value methods of the concrete prometheus types.  A vector has none  *)
(* of them: its children have.                                             *)
MethodSet(h) ==
    IF IsVec(h) THEN {}
    ELSE IF h.type = Gauge
        THEN {"Set", "Inc", "Dec", "Add", "Sub", "SetToCurrentTime"}
    ELSE IF h.type = Counter THEN {"Inc", "Add"}
    ELSE {"Observe"}

(* The interfaces the cases name: a case on an interface type matches      *)
(* every collector whose method set contains the interface's.              *)
GaugeInterface == {"Set", "Inc", "Dec", "Add", "Sub", "SetToCurrentTime"}
CounterInterface == {"Inc", "Add"}
HistogramInterface == {"Observe"}

CaseInterface(type, methods) == [vec |-> FALSE, methods |-> methods, type |-> type]
CaseVec(type) == [vec |-> TRUE, methods |-> {}, type |-> type]

(* Mutant: an interface case that matches its own collector type only.     *)
CaseMatchesByName(h, c) == IsVec(h) = c.vec /\ h.type = c.type

CaseMatches(h, c) ==
    IF c.vec THEN IsVec(h) /\ h.type = c.type
             ELSE c.methods \subseteq MethodSet(h)

(* switch c := col.col.(type): the first case that matches, 0 for default. *)
TypeSwitch(h, cases) ==
    IF \E i \in 1..Len(cases) : CaseMatches(h, cases[i])
        THEN CHOOSE i \in 1..Len(cases) :
                /\ CaseMatches(h, cases[i])
                /\ \A j \in 1..(i - 1) : ~CaseMatches(h, cases[j])
        ELSE 0

AddCases == <<CaseInterface(Gauge, GaugeInterface), CaseVec(Gauge),
              CaseInterface(Counter, CounterInterface), CaseVec(Counter)>>
SubCases == <<CaseInterface(Gauge, GaugeInterface), CaseVec(Gauge)>>
SetCases == <<CaseInterface(Gauge, GaugeInterface), CaseVec(Gauge)>>
ObserveCases == <<CaseVec(Summary), CaseInterface(Histogram, HistogramInterface),
                  CaseVec(Histogram)>>

(* Mutant: label values are refused on a scalar collector as well.         *)
LabelCheckStrict(h, vec, labels) ==
    IF ~vec THEN (IF Len(labels) = 0 THEN NoError ELSE MissingLabels)
    ELSE IF Len(labels) = 0 THEN MissingLabels
    ELSE IF Len(labels) # Len(h.labels) THEN MissingLabels
    ELSE NoError

(* Mutant: any non-empty sequence of label values addresses a child.       *)
LabelCheckNoCardinality(h, vec, labels) ==
    IF vec /\ Len(labels) = 0 THEN MissingLabels ELSE NoError

(* The label checks of a case: none in a scalar case; in a vector case     *)
(* len(m.Labels) == 0 is refused by the handler, and a number of values    *)
(* other than the number of label names by GetMetricWithLabelValues.       *)
LabelCheck(h, vec, labels) ==
    IF ~vec THEN NoError
    ELSE IF Len(labels) = 0 THEN MissingLabels
    ELSE IF Len(labels) # Len(h.labels) THEN MissingLabels
    ELSE NoError

(* Mutant: Add stores its argument instead of adding it.                   *)
EffectAddStores(method, old, v) ==
    IF method = "Sub" THEN [old EXCEPT !.sum = @ - v]
    ELSE IF method \in {"Add", "Set"} THEN [old EXCEPT !.sum = v]
    ELSE [cnt |-> old.cnt + 1, sum |-> old.sum + v]

(* Mutant: Set adds its argument to the value.                             *)
EffectSetAdds(method, old, v) ==
    IF method \in {"Add", "Set"} THEN [old EXCEPT !.sum = @ + v]
    ELSE IF method = "Sub" THEN [old EXCEPT !.sum = @ - v]
    ELSE [cnt |-> old.cnt + 1, sum |-> old.sum + v]

(* The effect of the prometheus method on one metric.                      *)
Effect(method, old, v) ==
    IF method = "Add" THEN [old EXCEPT !.sum = @ + v]
    ELSE IF method = "Sub" THEN [old EXCEPT !.sum = @ - v]
    ELSE IF method = "Set" THEN [old EXCEPT !.sum = v]
    ELSE [cnt |-> old.cnt + 1, sum |-> old.sum + v]

(* counter.Add panics when the value is negative.                          *)
MethodPanics(h, method, v) == h.type = Counter /\ method = "Add" /\ v < 0

(* The metric addressed inside collector h: the collector itself for a     *)
(* scalar, the child of the label values for a vector (created at zero on  *)
(* first use).                                                             *)
Child(h, lv) == IF lv \in DOMAIN h.vals THEN h.vals[lv] ELSE ZeroValue

(* Mutant: the children of a vector share one value.                      *)
WithChildShared(h, lv, v) ==
    [h EXCEPT !.vals = [k \in DOMAIN @ \cup {lv} |-> v]]

WithChild(h, lv, v) == [h EXCEPT !.vals = (lv :> v) @@ @]

(* Mutant: a mutation of an undefined collector creates a gauge for it.    *)
MetricCallCreates(p, op, m) ==
    /\ CanCall(p)
    /\ Enter(p, Request(op, m.name, m.namespace, m.value, m.labels, NoCollector))
    /\ LET h == collectorExists(collectors, m.name, m.namespace) IN
       IF h = NoHandle
          THEN /\ Return(p, NotFound)
               /\ handles' = Append(handles,
                    NewCollector(m.name,
                        Collector(m.namespace, "", Gauge, <<>>, <<>>, {}),
                        {}, FALSE))
               /\ collectors' = Store(collectors,
                    collectorKey(m.name, m.namespace), Len(handles) + 1)
          ELSE /\ pc' = [pc EXCEPT ![p] = "m_switch"]
               /\ col' = [col EXCEPT ![p] = h]
               /\ res' = [res EXCEPT ![p] = "none"]
               /\ UNCHANGED <<collectors, handles>>
    /\ UNCHANGED <<sink, mu, plugin, todo, errCh>>

(* Mutant: a mutation waits until nobody holds the mutex.                  *)
MetricCallLocked(p, op, m) ==
    /\ mu = Free
    /\ CanCall(p)
    /\ Enter(p, Request(op, m.name, m.namespace, m.value, m.labels, NoCollector))
    /\ LET h == collectorExists(collectors, m.name, m.namespace) IN
       IF h = NoHandle
          THEN Return(p, NotFound)
          ELSE /\ pc' = [pc EXCEPT ![p] = "m_switch"]
               /\ col' = [col EXCEPT ![p] = h]
               /\ res' = [res EXCEPT ![p] = "none"]
    /\ UNCHANGED <<collectors, handles, sink, mu, plugin, todo, errCh>>

(* The common entry of the four handlers: collectorExists, and the         *)
(* undefined-collector return.                                             *)
MetricCall(p, op, m) ==
    /\ CanCall(p)
    /\ Enter(p, Request(op, m.name, m.namespace, m.value, m.labels, NoCollector))
    /\ LET h == collectorExists(collectors, m.name, m.namespace) IN
       IF h = NoHandle
          THEN Return(p, NotFound)
          ELSE /\ pc' = [pc EXCEPT ![p] = "m_switch"]
               /\ col' = [col EXCEPT ![p] = h]
               /\ res' = [res EXCEPT ![p] = "none"]
    /\ UNCHANGED <<collectors, handles, sink, mu, plugin, todo, errCh>>

(* The body of a handler after the lookup: the type switch, the label      *)
(* checks of the vector cases, the prometheus method, *ok = true.  In a    *)
(* vector case GetMetricWithLabelValues has created the child before the   *)
(* method is called, also when the method panics.                          *)
MetricSwitch(p, op, cases, method) ==
    /\ Running
    /\ pc[p] = "m_switch"
    /\ req[p].op = op
    /\ LET h == handles[col[p]]
           c == TypeSwitch(h, cases)
           vec == c # 0 /\ cases[c].vec
           lv == IF vec THEN req[p].labels ELSE <<>>
       IN
       IF c = 0
          THEN Return(p, UnsupportedOperation) /\ UNCHANGED <<handles, ok>>
       ELSE IF LabelCheck(h, vec, req[p].labels) # NoError
          THEN /\ Return(p, LabelCheck(h, vec, req[p].labels))
               /\ UNCHANGED <<handles, ok>>
       ELSE IF MethodPanics(h, method, req[p].value)
          THEN /\ handles' = [handles EXCEPT ![col[p]] =
                        WithChild(h, lv, Child(h, lv))]
               /\ Panics(p)
               /\ UNCHANGED ok
       ELSE /\ handles' = [handles EXCEPT ![col[p]] =
                    WithChild(h, lv, Effect(method, Child(h, lv), req[p].value))]
            /\ ok' = [ok EXCEPT ![p] = TRUE]
            /\ Return(p, NoError)
    /\ UNCHANGED <<collectors, sink, mu, req, calls, plugin, todo, errCh>>

(* rpc.Add *)
AddCall(p, m) == MetricCall(p, "Add", m)
Add(p) == MetricSwitch(p, "Add", AddCases, "Add")

(* rpc.Sub *)
SubCall(p, m) == MetricCall(p, "Sub", m)
Sub(p) == MetricSwitch(p, "Sub", SubCases, "Sub")

(* rpc.Set *)
SetCall(p, m) == MetricCall(p, "Set", m)
Set(p) == MetricSwitch(p, "Set", SetCases, "Set")

(* rpc.Observe *)
ObserveCall(p, m) == MetricCall(p, "Observe", m)
Observe(p) == MetricSwitch(p, "Observe", ObserveCases, "Observe")

----------------------------------------------------------------------------
(* Plugin.Serve and Plugin.Stop.                                           *)

(* Mutant: Serve of the earlier plugin, which does not take the mutex.     *)
ServeLockNoWait ==
    /\ Running
    /\ plugin = "init"
    /\ mu' = PluginProc
    /\ plugin' = "range"
    /\ todo' = DOMAIN collectors
    /\ UNCHANGED <<collectors, handles, sink, pc, req, col, res, ok, calls,
                   errCh>>

(* p.mu.Lock() at the entry of Serve; Range then visits the keys present.  *)
ServeLock ==
    /\ Running
    /\ plugin = "init"
    /\ mu = Free
    /\ mu' = PluginProc
    /\ plugin' = "range"
    /\ todo' = DOMAIN collectors
    /\ UNCHANGED <<collectors, handles, sink, pc, req, col, res, ok, calls,
                   errCh>>

(* Mutant: the Range does not look at the registered flag.                 *)
ServeRangeNoSkip(k) ==
    /\ Running
    /\ plugin = "range"
    /\ k \in todo
    /\ LET c == handles[collectors[k]] IN
       IF RegisterFails(handles, sink, c)
          THEN /\ errCh' = RegistrationFailure
               /\ todo' = {}
               /\ plugin' = "serving"
               /\ mu' = Free
               /\ UNCHANGED sink
          ELSE /\ sink' = sink \cup {collectors[k]}
               /\ todo' = todo \ {k}
               /\ UNCHANGED <<errCh, plugin, mu>>
    /\ UNCHANGED <<collectors, handles, pc, req, col, res, ok, calls>>

(* Mutant: the function given to Range returns true after an error, so the *)
(* Range goes on to the next key.                                          *)
ServeRangeContinues(k) ==
    /\ Running
    /\ plugin = "range"
    /\ k \in todo
    /\ LET c == handles[collectors[k]] IN
       IF c.registered
          THEN /\ todo' = todo \ {k}
               /\ UNCHANGED <<sink, errCh, plugin, mu>>
       ELSE IF RegisterFails(handles, sink, c)
          THEN /\ errCh' = RegistrationFailure
               /\ todo' = todo \ {k}
               /\ UNCHANGED <<sink, plugin, mu>>
          ELSE /\ sink' = sink \cup {collectors[k]}
               /\ todo' = todo \ {k}
               /\ UNCHANGED <<errCh, plugin, mu>>
    /\ UNCHANGED <<collectors, handles, pc, req, col, res, ok, calls>>

(* One call of the function given to p.collectors.Range.  A registration   *)
(* error goes to errCh and ends the Range; Serve then returns and the      *)
(* deferred Unlock runs.                                                   *)
ServeRange(k) ==
    /\ Running
    /\ plugin = "range"
    /\ k \in todo
    /\ LET c == handles[collectors[k]] IN
       IF c.registered
          THEN /\ todo' = todo \ {k}
               /\ UNCHANGED <<sink, errCh, plugin, mu>>
       ELSE IF RegisterFails(handles, sink, c)
          THEN /\ errCh' = RegistrationFailure
               /\ todo' = {}
               /\ plugin' = "serving"
               /\ mu' = Free
               /\ UNCHANGED sink
          ELSE /\ sink' = sink \cup {collectors[k]}
               /\ todo' = todo \ {k}
               /\ UNCHANGED <<errCh, plugin, mu>>
    /\ UNCHANGED <<collectors, handles, pc, req, col, res, ok, calls>>

(* The Range is over: Serve starts the HTTP server and returns.            *)
ServeReturn ==
    /\ Running
    /\ plugin = "range"
    /\ todo = {}
    /\ plugin' = "serving"
    /\ mu' = Free
    /\ UNCHANGED <<collectors, handles, sink, pc, req, col, res, ok, calls,
                   todo, errCh>>

(* p.mu.Lock() at the entry of Stop.                                       *)
StopLock ==
    /\ Running
    /\ plugin = "serving"
    /\ mu = Free
    /\ mu' = PluginProc
    /\ plugin' = "stopping"
    /\ UNCHANGED <<collectors, handles, sink, pc, req, col, res, ok, calls,
                   todo, errCh>>

(* The HTTP server is shut down; Stop returns and unlocks.                 *)
StopReturn ==
    /\ Running
    /\ plugin = "stopping"
    /\ plugin' = "stopped"
    /\ mu' = Free
    /\ UNCHANGED <<collectors, handles, sink, pc, req, col, res, ok, calls,
                   todo, errCh>>

----------------------------------------------------------------------------
(* Plugin.Init: the collectors of the static configuration.                *)

RECURSIVE SetToSeq(_)
SetToSeq(S) ==
    IF S = {} THEN <<>>
    ELSE LET x == CHOOSE y \in S : TRUE IN <<x>> \o SetToSeq(S \ {x})

(* Mutant: getCollectors accepts every type.                               *)
getCollectorsNeverFails(collect) == FALSE

(* Config.getCollectors: one unregistered collector per entry of Collect;  *)
(* an unknown type rejects the whole configuration.                        *)
getCollectorsFails(collect) ==
    \E name \in DOMAIN collect : collect[name].type \notin CollectorTypes

getCollectors(collect) ==
    [name \in DOMAIN collect |->
        NewCollector(name, collect[name], collect[name].objectives, FALSE)]

(* The state after Init(cfg).  When it returned nil every configured       *)
(* collector is stored under its bare name and nothing is registered yet.  *)
(* When getCollectors failed, Init returned its error before the loop that *)
(* stores: the registry is empty and the plugin is not served.             *)
InitPlugin(collect) ==
    LET cl == IF getCollectorsFails(collect) THEN <<>> ELSE getCollectors(collect)
        order == SetToSeq(DOMAIN cl)
    IN
    /\ handles = [i \in 1..Len(order) |-> cl[order[i]]]
    /\ collectors = [name \in DOMAIN cl |->
                        CHOOSE i \in 1..Len(order) : order[i] = name]
    /\ sink = {}
    /\ mu = Free
    /\ pc = [p \in Procs |-> "idle"]
    /\ req = [p \in Procs |-> NoRequest]
    /\ col = [p \in Procs |-> NoHandle]
    /\ res = [p \in Procs |-> "none"]
    /\ ok = [p \in Procs |-> FALSE]
    /\ calls = 0
    /\ plugin = IF getCollectorsFails(collect) THEN "failed" ELSE "init"
    /\ todo = {}
    /\ errCh = IF getCollectorsFails(collect) THEN InvalidType ELSE NoError

----------------------------------------------------------------------------
(* The inputs of the model.                                                *)

Names == {"x", "n_x"}
Namespaces == {"", "n"}

Metric(name, namespace, value, labels) ==
    [name |-> name, namespace |-> namespace, value |-> value, labels |-> labels]

(* The declarations of the protocol specification: scalar collectors of a  *)
(* gauge, a histogram (with default or unsorted buckets) and an unknown    *)
(* type, under every namespace.  The names "n_x" without namespace and "x" *)
(* in namespace "n" have the same fully-qualified name.                    *)
ProtoCollectors ==
    {Collector(ns, "", t, <<>>, <<>>, {}) :
        ns \in Namespaces, t \in {Gauge, Histogram, "bogus"}}
    \cup {Collector("", "", Histogram, <<>>, <<2, 1>>, {})}

ProtoMetrics == {Metric("x", ns, 1, <<>>) : ns \in Namespaces}

ProtoConfigs ==
    {<<>>}
    \cup {("x" :> Collector(ns, "", Gauge, <<>>, <<>>, {})) : ns \in Namespaces}

----------------------------------------------------------------------------
(* The specification.                                                      *)

Mutation(p, ms) ==
    \/ \E m \in ms : AddCall(p, m)
    \/ Add(p)
    \/ \E m \in ms : SubCall(p, m)
    \/ Sub(p)
    \/ \E m \in ms : SetCall(p, m)
    \/ Set(p)
    \/ \E m \in ms : ObserveCall(p, m)
    \/ Observe(p)

Step(p, names, ncs, ms) ==
    \/ \E name \in names, nc \in ncs : DeclareCall(p, name, nc)
    \/ DeclareLock(p)
    \/ DeclareCheck(p)
    \/ DeclareRegister(p)
    \/ DeclareStore(p)
    \/ \E name \in names : UnregisterCall(p, name)
    \/ UnregisterSink(p)
    \/ Mutation(p, ms)

Serve ==
    \/ ServeLock
    \/ \E k \in todo : ServeRange(k)
    \/ ServeReturn

Stop ==
    \/ StopLock
    \/ StopReturn

Init == \E collect \in ProtoConfigs : InitPlugin(collect)

Next ==
    \/ \E p \in Procs : Step(p, Names, ProtoCollectors, ProtoMetrics)
    \/ Serve

Spec == Init /\ [][Next]_vars

----------------------------------------------------------------------------
(* The dispatch specification: one collector "x" of every type and shape,  *)
(* from the configuration or from Declare, and every mutation on it with   *)
(* no, matching and non-matching label values.                             *)

DispatchCollectors ==
    {Collector("", "", t, ls, <<>>, {}) :
        t \in CollectorTypes, ls \in {<<>>, <<"l">>}}

DispatchLabels == {<<>>, <<"a">>, <<"b">>, <<"a", "b">>}

DispatchMetrics ==
    {Metric("x", "", v, ls) : v \in {-1, 2}, ls \in DispatchLabels}

DispatchConfigs == {<<>>} \cup {("x" :> c) : c \in DispatchCollectors}

InitDispatch == \E collect \in DispatchConfigs : InitPlugin(collect)

NextDispatch ==
    \E p \in Procs : Step(p, {"x"}, DispatchCollectors, DispatchMetrics)

SpecDispatch == InitDispatch /\ [][NextDispatch]_vars

----------------------------------------------------------------------------
(* The value specification: one counter or gauge "x", scalar or with one   *)
(* label name, from the configuration or from Declare, and mutations by    *)
(* negative and positive values on the collector and on two children.      *)

ValueCollectors ==
    {Collector("", "", t, ls, <<>>, {}) :
        t \in {Counter, Gauge}, ls \in {<<>>, <<"l">>}}

ValueMetrics ==
    {Metric("x", "", v, ls) : v \in {-1, 3, 5}, ls \in {<<>>, <<"a">>, <<"b">>}}

ValueConfigs == {<<>>} \cup {("x" :> c) : c \in ValueCollectors}

InitValues == \E collect \in ValueConfigs : InitPlugin(collect)

NextValues ==
    \E p \in Procs : Step(p, {"x"}, ValueCollectors, ValueMetrics)

SpecValues == InitValues /\ [][NextValues]_vars

----------------------------------------------------------------------------
(* The resolution specification: the configuration names gauges "x", "x@"  *)
(* and "x@n", which Init stores under these names; "x@" and "x@n" are also *)
(* the composite keys of "x" without namespace and in namespace "n".       *)

ResolveNames == {"x", "x@", "x@n"}

ResolveCollectors == {Collector(ns, "", Gauge, <<>>, <<>>, {}) : ns \in Namespaces}

ResolveMetrics == {Metric("x", ns, 1, <<>>) : ns \in Namespaces}

ResolveConfigs ==
    {[name \in S |-> Collector("", "", Gauge, <<>>, <<>>, {})] :
        S \in SUBSET ResolveNames}

InitResolve == \E collect \in ResolveConfigs : InitPlugin(collect)

NextResolve ==
    \E p \in Procs : Step(p, {"x"}, ResolveCollectors, ResolveMetrics)

SpecResolve == InitResolve /\ [][NextResolve]_vars

----------------------------------------------------------------------------
(* The type specification: configurations of "x" and "y" with known and    *)
(* unknown types, and declarations of "x" and "z" with known and unknown   *)
(* types.                                                                  *)

TypeTags == {Gauge, Counter, "bogus"}

TypeCollectors == {Collector("", "", t, <<>>, <<>>, {}) : t \in TypeTags}

TypeMetrics == {Metric(name, "", 1, <<>>) : name \in {"x", "z"}}

TypeConfigs ==
    UNION {[S -> TypeCollectors] : S \in SUBSET {"x", "y"}}

InitTypes == \E collect \in TypeConfigs : InitPlugin(collect)

NextTypes ==
    \E p \in Procs : Step(p, {"x", "z"}, TypeCollectors, TypeMetrics)

SpecTypes == InitTypes /\ [][NextTypes]_vars

----------------------------------------------------------------------------
(* The factory specification: summaries without and with an objective (the *)
(* pair of a quantile and its error, in hundredths) and histograms with    *)
(* default and with given buckets, scalar and vector, as the configured    *)
(* "x" and in declarations of "x" and "y".                                 *)

FactoryCollectors ==
    {Collector("", "", Summary, ls, <<>>, o) :
        ls \in {<<>>, <<"l">>}, o \in {{}, {<<50, 5>>}}}
    \cup {Collector("", "", Histogram, ls, b, {}) :
            ls \in {<<>>, <<"l">>}, b \in {<<>>, <<1, 2>>}}

FactoryMetrics == {Metric(name, "", 1, <<>>) : name \in {"x", "y"}}

FactoryConfigs == {<<>>} \cup {("x" :> c) : c \in FactoryCollectors}

InitFactory == \E collect \in FactoryConfigs : InitPlugin(collect)

NextFactory ==
    \E p \in Procs : Step(p, {"x", "y"}, FactoryCollectors, FactoryMetrics)

SpecFactory == InitFactory /\ [][NextFactory]_vars

----------------------------------------------------------------------------
(* The specification with scheduling.  The framework may call Stop once    *)
(* Serve has returned.  A handler that has been entered keeps running: the *)
(* Go scheduler runs every runnable goroutine, and sync.Mutex hands the    *)
(* mutex to a goroutine that waits for it.  No call has to arrive, and     *)
(* neither Serve nor Stop has to be called.                                *)

Progress(p) ==
    \/ DeclareCheck(p)
    \/ DeclareRegister(p)
    \/ DeclareStore(p)
    \/ UnregisterSink(p)
    \/ Add(p)
    \/ Sub(p)
    \/ Set(p)
    \/ Observe(p)

PluginProgress ==
    \/ \E k \in todo : ServeRange(k)
    \/ ServeReturn
    \/ StopReturn

NextLive ==
    \/ \E p \in Procs : Step(p, Names, ProtoCollectors, ProtoMetrics)
    \/ Serve
    \/ Stop

SpecLive ==
    /\ Init
    /\ [][NextLive]_vars
    /\ \A p \in Procs : WF_vars(Progress(p)) /\ SF_vars(DeclareLock(p))
    /\ WF_vars(PluginProgress)

----------------------------------------------------------------------------
(* The specification of the bulk pass: configurations of up to three       *)
(* gauges, of which "n_x" without namespace and "x" in namespace "n" have  *)
(* the same fully-qualified name, so that the sink rejects the one the     *)
(* Range visits second.  The Range visits the keys in any order.           *)

ServeCollectors == {Collector(ns, "", Gauge, <<>>, <<>>, {}) : ns \in Namespaces}

ServeMetrics == {Metric("a", "", 1, <<>>)}

ServeConfigs ==
    {("a" :> Collector("", "", Gauge, <<>>, <<>>, {})),
     ("n_x" :> Collector("", "", Gauge, <<>>, <<>>, {})
        @@ "x" :> Collector("n", "", Gauge, <<>>, <<>>, {})),
     ("a" :> Collector("", "", Gauge, <<>>, <<>>, {})
        @@ "n_x" :> Collector("", "", Gauge, <<>>, <<>>, {})
        @@ "x" :> Collector("n", "", Gauge, <<>>, <<>>, {}))}

InitServe == \E collect \in ServeConfigs : InitPlugin(collect)

NextServe ==
    \/ \E p \in Procs : Step(p, Names, ServeCollectors, ServeMetrics)
    \/ Serve

SpecServe == InitServe /\ [][NextServe]_vars

----------------------------------------------------------------------------
(* Vocabulary of the properties.                                           *)

(* The keys under which a request addressed to (name, namespace) is looked *)
(* for in the registry.                                                    *)
KeysOf(name, namespace) == {name, name \o "@" \o namespace}

Resolvable(m, name, namespace) == KeysOf(name, namespace) \cap DOMAIN m # {}

(* Caller p takes a step out of position at.                               *)
Leaves(p, at) == pc[p] = at /\ pc'[p] # at

(* Caller p is inside Declare, past the existence check.                   *)
PastCheck(p) == pc[p] \in {"d_register", "d_store"}

Returned(p, op) == pc[p] = "idle" /\ req[p].op = op /\ res[p] # "none"

----------------------------------------------------------------------------
(* C1: after Unregister(name) has returned without error, no registry      *)
(* entry is resolvable for that name, so a later Add, Sub, Set or Observe  *)
(* addressed to it fails with NotFound.                                    *)
C1_UnregisterRemovesEntry ==
    [][\A p \in Procs :
        (Leaves(p, "u_sink") /\ res'[p] = NoError)
            => ~Resolvable(collectors', req[p].name, "")]_vars

----------------------------------------------------------------------------
(* C2: a Declare whose (name, namespace) already resolves to a collector   *)
(* fails with AlreadyExists without asking the sink for anything: it never *)
(* gets past the check, and its return leaves the registry (with exactly   *)
(* one key for the collector), the sink and every collector value as they  *)
(* were.                                                                   *)
C2_Redeclare ==
    /\ [](\A p \in Procs :
            PastCheck(p) => ~Resolvable(collectors, req[p].name, req[p].namespace))
    /\ [][\A p \in Procs :
            (/\ Leaves(p, "d_check")
             /\ Resolvable(collectors, req[p].name, req[p].namespace))
            => /\ pc'[p] = "idle"
               /\ res'[p] = AlreadyExists
               /\ ~ok'[p]
               /\ collectors' = collectors
               /\ handles' = handles
               /\ sink' = sink
               /\ \A k \in KeysOf(req[p].name, req[p].namespace) \cap DOMAIN collectors :
                    Cardinality({j \in DOMAIN collectors :
                                    collectors[j] = collectors[k]}) = 1]_vars

(* A Declare was rejected as a duplicate of a collector that has already   *)
(* accumulated a value.                                                    *)
C2_Witness ==
    \E p \in Procs :
        /\ Returned(p, "Declare")
        /\ res[p] = AlreadyExists
        /\ \E k \in KeysOf(req[p].name, req[p].namespace) \cap DOMAIN collectors :
              handles[collectors[k]].vals[<<>>].sum > 0

----------------------------------------------------------------------------
(* C3, as stated: two concurrent Declare calls with the same (name,        *)
(* namespace) and a known type never both pass the not-found check.  With  *)
(* two calls made in all, the second caller has entered while the first    *)
(* was inside its call.                                                    *)
SameKey(p, q) ==
    /\ req[p].op = "Declare" /\ req[q].op = "Declare"
    /\ req[p].name = req[q].name
    /\ req[p].namespace = req[q].namespace

C3_NotBothPassCheck ==
    \A p, q \in Procs :
        (/\ p # q /\ calls = 2
         /\ Returned(p, "Declare") /\ Returned(q, "Declare")
         /\ SameKey(p, q)
         /\ req[p].nc.type \in CollectorTypes
         /\ req[q].nc.type \in CollectorTypes)
        => (res[p] = AlreadyExists \/ res[q] = AlreadyExists)

(* C3, amended: of two Declare calls with the same (name, namespace) at    *)
(* most one registers with the sink and stores a handle, no two collectors *)
(* created by Declare have the same (name, namespace), and a Declare that  *)
(* is about to register has found no collector stored for its pair.        *)
Stores(p) ==
    \/ pc[p] = "d_store"
    \/ Returned(p, "Declare") /\ res[p] = NoError

C3_AtMostOneRegisters ==
    /\ \A p, q \in Procs :
        (p # q /\ SameKey(p, q)) => ~(Stores(p) /\ Stores(q))
    /\ \A i, j \in DOMAIN handles :
        (i # j /\ handles[i].registered /\ handles[j].registered)
            => <<handles[i].name, handles[i].namespace>>
                 # <<handles[j].name, handles[j].namespace>>
    /\ \A p \in Procs : \A i \in DOMAIN handles :
        (pc[p] = "d_register" /\ handles[i].registered)
            => <<handles[i].name, handles[i].namespace>>
                 # <<req[p].name, req[p].namespace>>

(* Two concurrent Declare calls for one pair: one stored its collector,    *)
(* the other found it.                                                     *)
C3_Witness ==
    \E p, q \in Procs :
        /\ p # q /\ calls = 2 /\ SameKey(p, q)
        /\ Returned(p, "Declare") /\ res[p] = NoError
        /\ Returned(q, "Declare") /\ res[q] = AlreadyExists

----------------------------------------------------------------------------
(* C4, as stated: never two of Declare, Unregister and the bulk pass of    *)
(* Serve inside their registry- or sink-modifying sections together.       *)
InDeclare(p) == pc[p] \in {"d_check", "d_register", "d_store"}
InUnregister(p) == pc[p] = "u_sink"
InServe == plugin = "range"

C4_AllExclusive ==
    Cardinality({p \in Procs : InDeclare(p) \/ InUnregister(p)})
        + (IF InServe THEN 1 ELSE 0) <= 1

(* C4, amended: Declare and the bulk pass of Serve are mutually exclusive  *)
(* through the mutex, which is held exactly by the one that is inside;     *)
(* Unregister does not take it.                                            *)
C4_LockHoldersExclusive ==
    /\ Cardinality({p \in Procs : InDeclare(p)})
        + (IF InServe THEN 1 ELSE 0) <= 1
    /\ \A p \in Procs : InDeclare(p) <=> mu = p
    /\ plugin \in {"range", "stopping"} <=> mu = PluginProc

(* The bulk pass holds the mutex, a Declare waits for it and an Unregister *)
(* is between its lookup and its removal from the sink.                    *)
C4_Witness ==
    /\ InServe
    /\ \E p, q \in Procs : pc[p] = "d_lock" /\ InUnregister(q)

----------------------------------------------------------------------------
(* C5: when the sink rejects the registration of Declare, the call returns *)
(* RegistrationFailure with the reply flag false and leaves the registry,  *)
(* the collectors and the sink as they were; the mutex is released.        *)
SinkCollides(p) ==
    \E i \in sink :
        BuildFQName(handles[i].namespace, handles[i].subsystem, handles[i].name)
            = BuildFQName(req[p].namespace, req[p].nc.subsystem, req[p].name)

C5_RegistrationFailure ==
    [][\A p \in Procs :
        (Leaves(p, "d_register") /\ SinkCollides(p))
            => /\ pc'[p] = "idle"
               /\ res'[p] = RegistrationFailure
               /\ ~ok'[p]
               /\ collectors' = collectors
               /\ handles' = handles
               /\ sink' = sink
               /\ mu' = Free]_vars

(* A Declare returned RegistrationFailure.                                 *)
C5_Witness ==
    \E p \in Procs : Returned(p, "Declare") /\ res[p] = RegistrationFailure

----------------------------------------------------------------------------
(* C6: a panic while the collector of a Declare is built or registered     *)
(* does not leave Declare: the call returns a checked result.              *)
C6_DeclareNeverPanics ==
    \A p \in Procs : req[p].op = "Declare" => pc[p] # "panic"

----------------------------------------------------------------------------
(* The capability table: the operations a collector type supports.         *)
InTable(type, op) ==
    \/ type = Counter /\ op = "Add"
    \/ type = Gauge /\ op \in {"Add", "Sub", "Set"}
    \/ type \in {Histogram, Summary} /\ op = "Observe"

(* The collector a caller at the type switch has resolved, and the label   *)
(* values of its request against the collector's label names.              *)
Target(p) == handles[col[p]]
Scalar(p) == Target(p).labels = <<>>
LabelsMatch(p) == Len(req[p].labels) = Len(Target(p).labels)

(* The value a mutation leaves in the metric it addresses.                 *)
Expected(op, old, v) ==
    IF op = "Add" THEN [cnt |-> old.cnt, sum |-> old.sum + v]
    ELSE IF op = "Sub" THEN [cnt |-> old.cnt, sum |-> old.sum - v]
    ELSE IF op = "Set" THEN [cnt |-> old.cnt, sum |-> v]
    ELSE [cnt |-> old.cnt + 1, sum |-> old.sum + v]

(* C7: a mutation on a scalar collector, or on a vector collector with     *)
(* matching label values, succeeds exactly when (type, operation) is in    *)
(* the capability table; outside the table it fails with                   *)
(* UnsupportedOperation and changes no value.                              *)
C7_CapabilityTable ==
    [][\A p \in Procs :
        (Leaves(p, "m_switch") /\ (Scalar(p) \/ LabelsMatch(p)))
            => /\ (res'[p] = NoError /\ ok'[p])
                    <=> InTable(Target(p).type, req[p].op)
               /\ ~InTable(Target(p).type, req[p].op)
                    => (res'[p] = UnsupportedOperation /\ handles' = handles)]_vars

----------------------------------------------------------------------------
(* C8: Observe on a scalar Summary succeeds and records the sample.        *)
C8_ObserveScalarSummary ==
    [][\A p \in Procs :
        (/\ Leaves(p, "m_switch") /\ req[p].op = "Observe"
         /\ Target(p).type = Summary /\ Scalar(p))
            => /\ res'[p] = NoError /\ ok'[p]
               /\ handles'[col[p]].vals[<<>>]
                    = Expected("Observe", Target(p).vals[<<>>], req[p].value)]_vars

(* A scalar Summary has taken an observation.                              *)
C8_Witness ==
    \E i \in DOMAIN handles :
        /\ handles[i].type = Summary /\ handles[i].labels = <<>>
        /\ handles[i].vals[<<>>].cnt > 0

----------------------------------------------------------------------------
(* C9: on a vector collector, a permitted operation whose label values are *)
(* empty or differ in number from the label names fails with MissingLabels *)
(* and neither creates a child nor changes one.                            *)
C9_MissingLabels ==
    [][\A p \in Procs :
        (/\ Leaves(p, "m_switch") /\ ~Scalar(p) /\ ~LabelsMatch(p)
         /\ InTable(Target(p).type, req[p].op))
            => /\ pc'[p] = "idle"
               /\ res'[p] = MissingLabels
               /\ ~ok'[p]
               /\ handles' = handles]_vars

(* A permitted operation on a vector returned MissingLabels for label      *)
(* values that are too many, after a child had been created.               *)
C9_Witness ==
    \E p \in Procs :
        /\ pc[p] = "idle" /\ res[p] = MissingLabels /\ Len(req[p].labels) = 2
        /\ \E i \in DOMAIN handles : DOMAIN handles[i].vals \notin {{}, {<<>>}}

----------------------------------------------------------------------------
(* C10, as stated: a mutation on a scalar collector that carries label     *)
(* values does not succeed and leaves the value unchanged.                 *)
C10_ScalarRefusesLabels ==
    [][\A p \in Procs :
        (Leaves(p, "m_switch") /\ Scalar(p) /\ req[p].labels # <<>>)
            => (res'[p] # NoError /\ handles' = handles)]_vars

(* C10, amended: on a scalar collector the label values of the request are *)
(* ignored: a permitted operation succeeds and applies its value to the    *)
(* collector's single metric (unless it is a negative Add on a Counter),   *)
(* any other operation fails with UnsupportedOperation, and no child is    *)
(* created.                                                                *)
C10_ScalarIgnoresLabels ==
    [][\A p \in Procs :
        (Leaves(p, "m_switch") /\ Scalar(p) /\ req[p].labels # <<>>)
            => /\ DOMAIN handles'[col[p]].vals = {<<>>}
               /\ IF ~InTable(Target(p).type, req[p].op)
                    THEN res'[p] = UnsupportedOperation /\ handles' = handles
                  ELSE IF Target(p).type = Counter /\ req[p].value < 0
                    THEN res'[p] # NoError /\ handles' = handles
                  ELSE /\ res'[p] = NoError /\ ok'[p]
                       /\ handles'[col[p]].vals[<<>>]
                            = Expected(req[p].op, Target(p).vals[<<>>],
                                       req[p].value)]_vars

(* A mutation with label values succeeded on a scalar collector.           *)
C10_Witness ==
    \E p \in Procs :
        /\ pc[p] = "idle" /\ res[p] = NoError /\ req[p].labels # <<>>
        /\ req[p].op \in {"Add", "Sub", "Set", "Observe"}
        /\ \E k \in KeysOf(req[p].name, req[p].namespace) \cap DOMAIN collectors :
              handles[collectors[k]].labels = <<>>

----------------------------------------------------------------------------
MutationOps == {"Add", "Sub", "Set", "Observe"}

(* Caller p takes the step that enters a handler of the given operations:  *)
(* a call goes to the idle caller of least index.                          *)
Calls(p, ops) ==
    /\ calls' = calls + 1
    /\ pc[p] = "idle"
    /\ \A q \in Procs : q < p => pc[q] # "idle"
    /\ req'[p].op \in ops

(* C11: Add, Sub, Set and Observe addressed to a (name, namespace) with    *)
(* neither the bare name nor the composite key in the registry return      *)
(* NotFound and leave the registry, every collector and the sink as they   *)
(* were.                                                                   *)
C11_NotFound ==
    [][\A p \in Procs :
        (/\ Calls(p, MutationOps)
         /\ ~Resolvable(collectors, req'[p].name, req'[p].namespace))
            => /\ pc'[p] = "idle"
               /\ res'[p] = NotFound
               /\ ~ok'[p]
               /\ collectors' = collectors
               /\ handles' = handles
               /\ sink' = sink]_vars

(* A mutation returned NotFound although a collector of the same name is   *)
(* stored under the composite key of another namespace.                    *)
C11_Witness ==
    \E p \in Procs :
        /\ pc[p] = "idle" /\ req[p].op \in MutationOps /\ res[p] = NotFound
        /\ \E ns \in Namespaces :
              /\ ns # req[p].namespace
              /\ collectorKey(req[p].name, ns) \in DOMAIN collectors

----------------------------------------------------------------------------
(* The callers whose step is a successful operation op on collector i, and *)
(* the value of that step.                                                 *)
Succeeds(i, op) ==
    {p \in Procs : /\ Leaves(p, "m_switch") /\ col[p] = i /\ req[p].op = op
                   /\ res'[p] = NoError}

ValueBy(i, op) ==
    IF Succeeds(i, op) = {} THEN 0
    ELSE req[CHOOSE p \in Succeeds(i, op) : TRUE].value

ScalarOf(i, type) == handles[i].type = type /\ handles[i].labels = <<>>

(* C12: the value of a scalar Counter is the sum of the values of the      *)
(* successful Add calls on it, however the calls of the callers            *)
(* interleave: it starts at zero, every successful Add raises it by        *)
(* exactly its value, no other step changes it, and an Add of a            *)
(* non-negative value on it succeeds.                                      *)
C12_CounterSum ==
    /\ [][\A i \in DOMAIN handles' \ DOMAIN handles :
            handles'[i].labels = <<>> => handles'[i].vals[<<>>].sum = 0]_vars
    /\ [][\A i \in DOMAIN handles :
            ScalarOf(i, Counter)
                => /\ Cardinality(Succeeds(i, "Add")) <= 1
                   /\ handles'[i].vals[<<>>].sum
                        = handles[i].vals[<<>>].sum + ValueBy(i, "Add")]_vars
    /\ [][\A p \in Procs :
            (/\ Leaves(p, "m_switch") /\ req[p].op = "Add"
             /\ ScalarOf(col[p], Counter) /\ req[p].value >= 0)
                => res'[p] = NoError]_vars

(* Add 5 and Add 3 on a scalar Counter, in either order and by either      *)
(* caller: the counter is at 8.                                            *)
C12_Witness ==
    /\ calls >= 2
    /\ \E i \in DOMAIN handles : ScalarOf(i, Counter) /\ handles[i].vals[<<>>].sum = 8

----------------------------------------------------------------------------
(* The metric a caller at the type switch addresses: the collector itself  *)
(* when it is scalar, the child of the label values otherwise; a child     *)
(* that does not exist yet counts as zero.                                 *)
Addressed(p) == IF Scalar(p) THEN <<>> ELSE req[p].labels

SumAt(h, lv) == IF lv \in DOMAIN h.vals THEN h.vals[lv].sum ELSE 0

(* C13: on a Gauge a successful Set leaves the metric at the value of the  *)
(* call, a successful Sub leaves it lower by the value of the call, and a  *)
(* Set to the value the metric already has changes nothing.                *)
C13_GaugeSetSub ==
    [][\A p \in Procs :
        (/\ Leaves(p, "m_switch") /\ Target(p).type = Gauge
         /\ res'[p] = NoError)
            => /\ req[p].op = "Set" =>
                    SumAt(handles'[col[p]], Addressed(p)) = req[p].value
               /\ req[p].op = "Sub" =>
                    SumAt(handles'[col[p]], Addressed(p))
                        = SumAt(Target(p), Addressed(p)) - req[p].value
               /\ (/\ req[p].op = "Set"
                   /\ Addressed(p) \in DOMAIN Target(p).vals
                   /\ SumAt(Target(p), Addressed(p)) = req[p].value)
                    => handles' = handles]_vars

(* Set 5 by one caller, then Sub 3 by the other, on a scalar Gauge: 2.     *)
C13_Witness ==
    \E p, q \in Procs :
        /\ p # q /\ calls = 2
        /\ pc[p] = "idle" /\ req[p].op = "Set" /\ req[p].value = 5 /\ res[p] = NoError
        /\ pc[q] = "idle" /\ req[q].op = "Sub" /\ req[q].value = 3 /\ res[q] = NoError
        /\ req[p].labels = <<>> /\ req[q].labels = <<>>
        /\ \E i \in DOMAIN handles : ScalarOf(i, Gauge) /\ handles[i].vals[<<>>].sum = 2

----------------------------------------------------------------------------
(* C14: an Add of a negative value on a Counter, scalar or child of a      *)
(* vector, is rejected: the call returns an error, no value changes and    *)
(* the process keeps running; on a Gauge it succeeds and lowers the value. *)
C14_NegativeAdd ==
    [][\A p \in Procs :
        (/\ Leaves(p, "m_switch") /\ req[p].op = "Add" /\ req[p].value < 0
         /\ (Scalar(p) \/ LabelsMatch(p)))
            => /\ Target(p).type = Counter =>
                    /\ pc'[p] = "idle"
                    /\ res'[p] \notin {NoError, Panic}
                    /\ ~ok'[p]
                    /\ handles' = handles
                    /\ Running'
               /\ Target(p).type = Gauge =>
                    /\ res'[p] = NoError
                    /\ SumAt(handles'[col[p]], Addressed(p))
                        = SumAt(Target(p), Addressed(p)) + req[p].value]_vars

----------------------------------------------------------------------------
(* C15: a successful mutation on a vector collector with label values A    *)
(* leaves the child of A at the value the operation gives it, from zero    *)
(* when A is used for the first time, creates no other child and changes   *)
(* neither another child nor another collector.                            *)
C15_ChildrenIndependent ==
    [][\A p \in Procs :
        (Leaves(p, "m_switch") /\ ~Scalar(p) /\ res'[p] = NoError)
            => LET A == req[p].labels
                   old == Target(p).vals
                   new == handles'[col[p]].vals
               IN
               /\ DOMAIN new = DOMAIN old \cup {A}
               /\ \A B \in DOMAIN old \ {A} : new[B] = old[B]
               /\ new[A] = Expected(req[p].op,
                                    IF A \in DOMAIN old THEN old[A]
                                    ELSE [cnt |-> 0, sum |-> 0],
                                    req[p].value)
               /\ \A i \in DOMAIN handles \ {col[p]} : handles'[i] = handles[i]]_vars

(* A vector has two children with different values.                        *)
C15_Witness ==
    \E i \in DOMAIN handles :
        /\ <<"a">> \in DOMAIN handles[i].vals
        /\ <<"b">> \in DOMAIN handles[i].vals
        /\ handles[i].vals[<<"a">>] # handles[i].vals[<<"b">>]

----------------------------------------------------------------------------
(* C16: collectors declared with one name under different namespaces are   *)
(* distinguishable.  A Declare of (x, ns1) is not stopped by a collector   *)
(* stored for (x, ns2): it passes the check, and stores a second entry     *)
(* unless the sink refuses its descriptor.  Entries of different           *)
(* namespaces hold different collectors, a mutation addressed to (x, ns1)  *)
(* resolves the collector declared for (x, ns1) and changes no other, and  *)
(* a collector declared with the empty namespace is found with the name    *)
(* alone.                                                                  *)
Composite(name, namespace) == name \o "@" \o namespace

OtherNamespace(m, name, namespace) ==
    \E ns \in Namespaces : ns # namespace /\ Composite(name, ns) \in DOMAIN m

C16_Namespaces ==
    /\ [](\A name \in Names : \A ns1, ns2 \in Namespaces :
            (/\ ns1 # ns2
             /\ Composite(name, ns1) \in DOMAIN collectors
             /\ Composite(name, ns2) \in DOMAIN collectors)
                => /\ collectors[Composite(name, ns1)] # collectors[Composite(name, ns2)]
                   /\ handles[collectors[Composite(name, ns1)]].namespace = ns1
                   /\ handles[collectors[Composite(name, ns2)]].namespace = ns2
                   /\ name \notin DOMAIN collectors)
    /\ [](\A name \in Names :
            Composite(name, "") \in DOMAIN collectors
                => collectorExists(collectors, name, "")
                        = collectors[Composite(name, "")])
    /\ [][\A p \in Procs :
            (/\ Leaves(p, "d_check")
             /\ ~Resolvable(collectors, req[p].name, req[p].namespace)
             /\ OtherNamespace(collectors, req[p].name, req[p].namespace)
             /\ req[p].nc.type \in CollectorTypes
             /\ BucketsValid(req[p].nc.buckets))
                => pc'[p] = "d_register"]_vars
    /\ [][\A p \in Procs :
            (/\ Leaves(p, "d_register") /\ ~SinkCollides(p)
             /\ OtherNamespace(collectors, req[p].name, req[p].namespace))
                => pc'[p] = "d_store"]_vars
    /\ [][\A p \in Procs :
            (/\ Leaves(p, "d_store")
             /\ OtherNamespace(collectors, req[p].name, req[p].namespace))
                => /\ res'[p] = NoError /\ ok'[p]
                   /\ DOMAIN collectors'
                        = DOMAIN collectors
                            \cup {Composite(req[p].name, req[p].namespace)}
                   /\ \A k \in DOMAIN collectors : collectors'[k] = collectors[k]]_vars
    /\ [][\A p \in Procs :
            (/\ Leaves(p, "m_switch")
             /\ OtherNamespace(collectors, req[p].name, req[p].namespace))
                => /\ Composite(req[p].name, req[p].namespace) \in DOMAIN collectors
                   /\ col[p] = collectors[Composite(req[p].name, req[p].namespace)]
                   /\ \A i \in DOMAIN handles \ {col[p]} : handles'[i] = handles[i]]_vars

(* "x" is declared without namespace and under "n"; a mutation addressed   *)
(* to ("x", "n") has changed the collector of "n" alone.                   *)
C16_Witness ==
    /\ Composite("x", "") \in DOMAIN collectors
    /\ Composite("x", "n") \in DOMAIN collectors
    /\ handles[collectors[Composite("x", "n")]].vals[<<>>] # ZeroValue
    /\ handles[collectors[Composite("x", "")]].vals[<<>>] = ZeroValue

----------------------------------------------------------------------------
(* The resolution of (name, namespace) as the specification describes it.  *)
Resolve(m, name, namespace) ==
    IF name \in DOMAIN m THEN m[name]
    ELSE IF Composite(name, namespace) \in DOMAIN m
        THEN m[Composite(name, namespace)]
    ELSE 0

(* C17: a mutation addressed to (name, namespace) resolves the entry under *)
(* the bare key name whenever there is one, whatever the namespace of the  *)
(* request; otherwise the entry under the composite key; and it returns    *)
(* NotFound only when both are missing.                                    *)
C17_TwoTier ==
    [][\A p \in Procs :
        Calls(p, MutationOps)
            => LET name == req'[p].name
                   ns == req'[p].namespace
               IN
               /\ name \in DOMAIN collectors
                    => pc'[p] = "m_switch" /\ col'[p] = collectors[name]
               /\ (name \notin DOMAIN collectors
                   /\ Composite(name, ns) \in DOMAIN collectors)
                    => /\ pc'[p] = "m_switch"
                       /\ col'[p] = collectors[Composite(name, ns)]
               /\ res'[p] = NotFound
                    <=> (/\ name \notin DOMAIN collectors
                         /\ Composite(name, ns) \notin DOMAIN collectors)]_vars

(* The registry holds both the bare key "x" and the key "x@n", for         *)
(* different collectors, and a mutation addressed to ("x", "n") has        *)
(* changed the collector under the bare key.                               *)
C17_Witness ==
    /\ "x" \in DOMAIN collectors /\ "x@n" \in DOMAIN collectors
    /\ collectors["x"] # collectors["x@n"]
    /\ \E p \in Procs :
          /\ pc[p] = "idle" /\ req[p].op \in MutationOps /\ res[p] = NoError
          /\ req[p].name = "x" /\ req[p].namespace = "n"
    /\ handles[collectors["x"]].vals[<<>>] # ZeroValue
    /\ handles[collectors["x@n"]].vals[<<>>] = ZeroValue

----------------------------------------------------------------------------
(* C18: Declare, the mutations and Unregister resolve alike.  The check of *)
(* Declare(name, namespace) ends in AlreadyExists exactly when the         *)
(* two-tier resolution of (name, namespace) finds a collector, a mutation  *)
(* proceeds with exactly that collector, and Unregister(name) proceeds     *)
(* with the collector a mutation addressed to the name without namespace   *)
(* resolves, or returns NotFound when there is none.                       *)
C18_SameLookup ==
    /\ [][\A p \in Procs :
            Leaves(p, "d_check")
                => (res'[p] = AlreadyExists
                        <=> Resolve(collectors, req[p].name, req[p].namespace) # 0)]_vars
    /\ [][\A p \in Procs :
            Calls(p, MutationOps)
                => LET h == Resolve(collectors, req'[p].name, req'[p].namespace) IN
                   IF h = 0 THEN pc'[p] = "idle" /\ res'[p] = NotFound
                            ELSE pc'[p] = "m_switch" /\ col'[p] = h]_vars
    /\ [][\A p \in Procs :
            Calls(p, {"Unregister"})
                => LET h == Resolve(collectors, req'[p].name, "") IN
                   IF h = 0 THEN pc'[p] = "idle" /\ res'[p] = NotFound
                            ELSE pc'[p] = "u_sink" /\ col'[p] = h]_vars

(* An Unregister found its collector under the composite key, and a        *)
(* Declare of the same name was refused as existing.                       *)
C18_Witness ==
    /\ "x" \notin DOMAIN collectors
    /\ \E p, q \in Procs :
          /\ Returned(p, "Unregister") /\ res[p] = NoError
          /\ Returned(q, "Declare") /\ res[q] = AlreadyExists
          /\ req[q].namespace = ""

----------------------------------------------------------------------------
----------------------------------------------------------------------------
(* C20: when Unregister has found its entry and the sink has no collector  *)
(* to remove for it, the call still returns without error, the registry    *)
(* entry is gone and the sink is as it was.                                *)
SinkRefuses(p) ==
    \A i \in sink :
        BuildFQName(handles[i].namespace, handles[i].subsystem, handles[i].name)
            # BuildFQName(Target(p).namespace, Target(p).subsystem, Target(p).name)

C20_PartialFailure ==
    [][\A p \in Procs :
        (Leaves(p, "u_sink") /\ SinkRefuses(p))
            => /\ pc'[p] = "idle"
               /\ res'[p] = NoError
               /\ sink' = sink
               /\ ~Resolvable(collectors', req[p].name, "")]_vars

----------------------------------------------------------------------------
(* C21: after Init every configured collector is in the registry, not      *)
(* marked registered and not in the sink.  The bulk pass of Serve visits   *)
(* every entry of the registry once: an entry that is not marked           *)
(* registered is registered with the sink (or the pass ends with the       *)
(* error of the sink), an entry that is marked registered is skipped, and  *)
(* the pass is over without error only when every entry was visited.       *)
Visits(k) == plugin = "range" /\ k \in todo /\ todo' # todo /\ k \notin todo'

C21_BulkRegistration ==
    /\ []((plugin = "init" /\ calls = 0)
            => /\ sink = {}
               /\ \A k \in DOMAIN collectors :
                    /\ ~handles[collectors[k]].registered
                    /\ handles[collectors[k]].name = k)
    /\ [][(plugin = "init" /\ plugin' = "range") => todo' = DOMAIN collectors]_vars
    /\ [][\A k \in DOMAIN collectors :
            (Visits(k) /\ plugin' = "range")
                => IF handles[collectors[k]].registered
                      THEN sink' = sink /\ errCh' = errCh
                      ELSE /\ collectors[k] \notin sink
                           /\ sink' = sink \cup {collectors[k]}
                           /\ errCh' = errCh]_vars
    /\ [][(plugin = "range" /\ plugin' # "range")
            => /\ (errCh' = NoError => todo = {})
               /\ (errCh' # NoError
                    => \E k \in todo : /\ ~handles[collectors[k]].registered
                                       /\ sink' = sink)]_vars

(* The bulk pass has registered a configured collector and is about to     *)
(* skip an entry that Declare has registered.                              *)
C21_Witness ==
    /\ plugin = "range"
    /\ \E k \in todo : handles[collectors[k]].registered
    /\ \E i \in sink : ~handles[i].registered

----------------------------------------------------------------------------
(* C22: for each of the four types the factory builds the vector collector *)
(* when the declaration has labels and the scalar collector when it has    *)
(* none: a scalar is one metric, the children of a vector are addressed by *)
(* as many values as there are label names; and the collectors that        *)
(* getCollectors has built are not marked registered.                      *)
C22_Shape ==
    /\ \A i \in DOMAIN handles :
        LET h == handles[i] IN
        /\ h.type \in CollectorTypes
        /\ h.vec <=> h.labels # <<>>
        /\ ~h.vec => DOMAIN h.vals = {<<>>}
        /\ h.vec => \A lv \in DOMAIN h.vals : Len(lv) = Len(h.labels)
    /\ calls = 0 => \A i \in DOMAIN handles : ~handles[i].registered
    /\ \A k \in DOMAIN collectors :
        handles[collectors[k]].name = k => ~handles[collectors[k]].registered

(* A configured vector Summary has taken an observation for a child.       *)
C22_Witness ==
    \E i \in DOMAIN handles :
        /\ handles[i].type = Summary /\ handles[i].vec /\ ~handles[i].registered
        /\ DOMAIN handles[i].vals # {}

----------------------------------------------------------------------------
(* C23: a mutation never waits for the mutex of Declare: a call can enter  *)
(* and a call past its lookup can finish whoever holds the mutex.  The     *)
(* collector of a Declare between its registration and its Store is in the *)
(* registry under no key and in the hands of no mutation: a mutation       *)
(* either returns NotFound or works on a collector that is stored.         *)
Stored == {collectors[k] : k \in DOMAIN collectors}

C23_NoWait ==
    /\ [](\A p \in Procs : \A m \in ProtoMetrics :
            CanCall(p) => /\ ENABLED AddCall(p, m)
                          /\ ENABLED SubCall(p, m)
                          /\ ENABLED SetCall(p, m)
                          /\ ENABLED ObserveCall(p, m))
    /\ [](\A p \in Procs :
            (Running /\ pc[p] = "m_switch")
                => ENABLED (Add(p) \/ Sub(p) \/ Set(p) \/ Observe(p)))
    /\ [](\A p, q \in Procs :
            (pc[p] = "m_switch" /\ pc[q] = "d_store")
                => /\ col[p] \in Stored
                   /\ col[q] \notin Stored)
    /\ [][\A p \in Procs :
            Calls(p, MutationOps)
                => \/ pc'[p] = "idle" /\ res'[p] = NotFound
                   \/ pc'[p] = "m_switch" /\ col'[p] \in Stored]_vars

(* A mutation on "x" is past its lookup while a Declare of "n_x" holds the *)
(* mutex, its collector registered and not yet stored.                     *)
C23_Witness ==
    \E p, q \in Procs :
        /\ pc[p] = "m_switch" /\ req[p].name = "x"
        /\ pc[q] = "d_store" /\ req[q].name = "n_x" /\ mu = q

----------------------------------------------------------------------------
(* C24: a step of Add, Sub, Set or Observe, successful or not, leaves the  *)
(* keys and entries of the registry, the sink and everything of every      *)
(* collector but its values as they were; only the values of the collector *)
(* the call has resolved can change, and none when the call fails.         *)
SameButValues(h, g) == [h EXCEPT !.vals = g.vals] = g

C24_MutationFrame ==
    /\ [][\A p \in Procs :
            Calls(p, MutationOps)
                => /\ collectors' = collectors
                   /\ handles' = handles
                   /\ sink' = sink]_vars
    /\ [][\A p \in Procs :
            Leaves(p, "m_switch")
                => /\ collectors' = collectors
                   /\ sink' = sink
                   /\ DOMAIN handles' = DOMAIN handles
                   /\ \A i \in DOMAIN handles :
                        /\ SameButValues(handles'[i], handles[i])
                        /\ i # col[p] => handles'[i] = handles[i]
                   /\ res'[p] \in {UnsupportedOperation, MissingLabels}
                        => handles' = handles]_vars

(* With a collector in the sink, one mutation has succeeded and another    *)
(* has failed.                                                             *)
C24_Witness ==
    /\ sink # {}
    /\ \E p, q \in Procs :
          /\ pc[p] = "idle" /\ req[p].op \in MutationOps /\ res[p] = NoError
          /\ pc[q] = "idle" /\ req[q].op \in MutationOps
          /\ res[q] \in {UnsupportedOperation, MissingLabels}

----------------------------------------------------------------------------
(* C25: the collector that Declare creates from a declaration has the type, *)
(* shape, labels, buckets and objectives of the collector that             *)
(* getCollectors creates from the same declaration.                        *)
Configured(name, nc) == getCollectors(name :> nc)[name]

C25_SameFactory ==
    [][\A p \in Procs :
        (Leaves(p, "d_register") /\ pc'[p] = "d_store")
            => LET h == handles'[col'[p]]
                   g == Configured(req[p].name, req[p].nc)
               IN
               /\ h.type = g.type
               /\ h.vec = g.vec
               /\ h.labels = g.labels
               /\ h.buckets = g.buckets
               /\ h.objectives = g.objectives]_vars

----------------------------------------------------------------------------
(* C26: at most one entry per collector.  No collector is stored under two *)
(* keys, every entry is stored under the bare name of its collector or     *)
(* under the composite key of its name and namespace, and no name has both *)
(* an entry under the bare name and an entry under a composite key.        *)
EntryOf(k) == handles[collectors[k]]

----------------------------------------------------------------------------
(* C27: Declare registers before it stores: every entry of the registry    *)
(* that Declare stored (every entry not under the bare name of its         *)
(* collector) is under the composite key of its name and namespace, has    *)
(* registered = TRUE and its collector is registered in the sink.          *)
DeclaredKeys == {k \in DOMAIN collectors : k # EntryOf(k).name}

C27_RegisteredBeforeStored ==
    \A k \in DeclaredKeys :
        /\ k = Composite(EntryOf(k).name, EntryOf(k).namespace)
        /\ EntryOf(k).registered
        /\ collectors[k] \in sink

----------------------------------------------------------------------------
(* C28: the registered flag tells the truth: when no Declare, no           *)
(* Unregister and no bulk pass of Serve is in progress, an entry of the    *)
(* registry has registered = TRUE exactly when its collector is registered *)
(* in the sink.                                                            *)
Quiescent ==
    /\ ~InServe
    /\ \A p \in Procs : ~InDeclare(p) /\ ~InUnregister(p)

C28_RegisteredFlag ==
    Quiescent =>
        \A k \in DOMAIN collectors :
            EntryOf(k).registered <=> collectors[k] \in sink

----------------------------------------------------------------------------
(* C29: the reply flag agrees with the outcome of all six operations: a    *)
(* call that has returned returned without error exactly when it set the   *)
(* flag.                                                                   *)
AllOps == {"Declare", "Unregister", "Add", "Sub", "Set", "Observe"}

C29_AckAgrees ==
    \A p \in Procs : \A op \in AllOps :
        Returned(p, op) => (res[p] = NoError <=> ok[p])

(* C29, amended: a call that returns an error never sets the flag; a       *)
(* Declare, Add, Sub, Set or Observe that returns without error has set    *)
(* it; an Unregister that found its entry returns without error and sets   *)
(* the flag exactly when the sink removed a collector.                     *)
C29_AckAgreesButUnregister ==
    /\ [](\A p \in Procs : \A op \in AllOps :
            Returned(p, op) =>
                /\ ok[p] => res[p] = NoError
                /\ (res[p] = NoError /\ op # "Unregister") => ok[p])
    /\ [][\A p \in Procs :
            Leaves(p, "u_sink")
                => /\ res'[p] = NoError
                   /\ ok'[p] <=> ~SinkRefuses(p)]_vars

(* An Unregister returned without error and with the flag unset, after the *)
(* sink had nothing to remove.                                             *)
C29_Witness ==
    \E p \in Procs :
        /\ Returned(p, "Unregister")
        /\ res[p] = NoError
        /\ ~ok[p]

----------------------------------------------------------------------------
(* C30: a name can be declared again after it was unregistered: when an    *)
(* Unregister of a declared collector has returned without error and with  *)
(* the sink having removed the collector, a Declare of the same name and   *)
(* namespace passes the existence check.                                   *)
Unregistered(name, namespace) ==
    /\ Composite(name, namespace) \in DOMAIN collectors
    /\ EntryOf(Composite(name, namespace)).registered
    /\ Registered(handles, sink, EntryOf(Composite(name, namespace))) = {}
    /\ \E q \in Procs :
          /\ Returned(q, "Unregister") /\ res[q] = NoError /\ ok[q]
          /\ collectorExists(collectors, req[q].name, "")
                = collectors[Composite(name, namespace)]

C30_Redeclare ==
    [][\A p \in Procs :
        (Leaves(p, "d_check") /\ Unregistered(req[p].name, req[p].namespace))
            => pc'[p] = "d_register"]_vars

----------------------------------------------------------------------------
(* C31: every collector that Declare created can be removed again: an      *)
(* Unregister of a name under which exactly one collector is stored, a     *)
(* collector that Declare created, does not return NotFound.               *)
EntriesNamed(name) == {k \in DOMAIN collectors : EntryOf(k).name = name}

OnlyDeclared(name) ==
    /\ Cardinality(EntriesNamed(name)) = 1
    /\ EntriesNamed(name) \subseteq DeclaredKeys
    /\ \A k \in EntriesNamed(name) : collectors[k] \in sink

C31_Removable ==
    [][\A p \in Procs :
        (Calls(p, {"Unregister"}) /\ OnlyDeclared(req'[p].name))
            => res'[p] # NotFound]_vars

----------------------------------------------------------------------------
(* C32: of two concurrent Unregister calls with the same name on a         *)
(* collector that Declare created at most one acknowledges: the sink       *)
(* removes a collector for at most one of them.                            *)
BothUnregistered(p, q) ==
    /\ p # q
    /\ Returned(p, "Unregister") /\ Returned(q, "Unregister")
    /\ req[p].name = req[q].name
    /\ collectorExists(collectors, req[p].name, "") # NoHandle
    /\ handles[collectorExists(collectors, req[p].name, "")].registered

C32_OneAck ==
    \A p, q \in Procs : BothUnregistered(p, q) => ~(ok[p] /\ ok[q])

----------------------------------------------------------------------------
(* C33: Declare releases the mutex on every path, so with the scheduling   *)
(* of SpecLive a Declare that waits for the mutex returns, and the mutex   *)
(* is never held forever by Declare, Serve or Stop.                        *)
C33_DeclareReturns ==
    /\ \A p \in Procs : (pc[p] = "d_lock") ~> (pc[p] = "idle")
    /\ (mu # Free) ~> (mu = Free)

----------------------------------------------------------------------------
(* C34: when the sink rejects a configured collector in the bulk pass of   *)
(* Serve the pass ends there: the error is on the channel that Serve       *)
(* returns and stays there, the sink is as the pass had left it, and no    *)
(* configured collector is registered afterwards.                          *)
PassFails == plugin = "range" /\ errCh = NoError /\ errCh' # NoError

C34_PassStops ==
    /\ [][PassFails
            => /\ errCh' = RegistrationFailure
               /\ plugin' # "range"
               /\ todo' = {}
               /\ sink' = sink
               /\ \E k \in todo :
                    /\ ~EntryOf(k).registered
                    /\ RegisterFails(handles, sink, EntryOf(k))]_vars
    /\ [][errCh # NoError
            => /\ errCh' = errCh
               /\ plugin' # "range"
               /\ \A i \in sink' \ sink : handles'[i].registered]_vars

(* The pass registered one configured collector, was rejected with the     *)
(* next and left a third one, which the sink would accept, unregistered.   *)
C34_Witness ==
    /\ errCh = RegistrationFailure
    /\ plugin = "serving"
    /\ \E i \in sink : ~handles[i].registered
    /\ \E k \in DOMAIN collectors :
          /\ ~EntryOf(k).registered
          /\ collectors[k] \notin sink
          /\ ~RegisterFails(handles, sink, EntryOf(k))

----------------------------------------------------------------------------
(* C35: the composite key of a (name, namespace) is the key of no other    *)
(* collector, bare or composite: what a call addressed to (name,           *)
(* namespace) finds under collectorKey(name, namespace) is the collector   *)
(* of that name and namespace.                                             *)
C35_KeyInjective ==
    [][\A p \in Procs :
        (/\ Calls(p, MutationOps)
         /\ req'[p].name \notin DOMAIN collectors
         /\ pc'[p] = "m_switch")
            => /\ handles[col'[p]].name = req'[p].name
               /\ handles[col'[p]].namespace = req'[p].namespace]_vars

=============================================================================
